---- MODULE Spec2Model ----
(***************************************************************************)
(* EMQX MCP server: the tool handlers (publish, list_clients,              *)
(* get_client_info, kick_client, validate_sql, list_available_schemas)     *)
(* and the HTTP API client they call.  A tool invocation is a coroutine;   *)
(* it is cut into steps at its suspension points: entering the transport   *)
(* context, the awaited HTTP request, leaving the transport context.       *)
(*                                                                         *)
(* JSON values are modelled by tokens: "s:abc" is the string abc, "s:" the *)
(* empty string, "i:1" the number 1, "b:true" the boolean, "null" null.    *)
(* A mapping is a total function over its key universe in which a key that *)
(* is not in the mapping is bound to Absent.                               *)
(***************************************************************************)
EXTENDS Naturals, FiniteSets, Sequences, TLC

\* ------------------------------------------------------------- bounds
NumCalls == 2       \* tool invocations that may be in flight together
MaxFilters == 2     \* optional filter keys in one list_clients request

\* ---------------------------------------------------------- constants
Timeout == 30       \* httpx timeout of one request
DefaultPage == 1
DefaultLimit == 100

Calls == 1..NumCalls

Absent == "<absent>"
Null == "null"

\* ------------------------------------------------------ request payloads
\* optional_params of list_clients, in the order of the source
optional_params ==
    << "node", "clientid", "username", "ip_address", "conn_state",
       "clean_start", "proto_ver", "like_clientid", "like_username",
       "like_ip_address" >>

FilterKeys == { optional_params[n] : n \in 1..Len(optional_params) }

Keys == FilterKeys \cup
        { "page", "limit", "topic", "payload", "qos", "retain",
          "sql", "context", "bogus" }

Tools == { "publish", "list_clients", "get_client_info", "kick_client",
           "validate_sql", "list_available_schemas" }

\* the values a caller may bind to a key
TokensOf(k) ==
    CASE k = "topic"    -> { "s:", "s:t/1" }
      [] k = "payload"  -> { Null, "s:", "s:hello" }
      [] k = "qos"      -> { "i:1", "i:7" }
      [] k = "retain"   -> { "b:true" }
      [] k = "clientid" -> { "s:", "s:abc" }
      [] k = "page"     -> { "i:2" }
      [] k = "limit"    -> { "i:50" }
      [] k = "sql"      -> { Null, "s:SELECT" }
      [] k = "context"  -> { "s:ctx" }
      [] OTHER          -> { "s:x" }

\* the keys a request to a tool is drawn over; every other key is Absent
KeysOf(tool) ==
    CASE tool = "publish"         -> { "topic", "payload", "qos", "retain", "bogus" }
      [] tool = "list_clients"    -> FilterKeys \cup { "page", "limit", "bogus" }
      [] tool = "get_client_info" -> { "clientid", "bogus" }
      [] tool = "kick_client"     -> { "clientid", "bogus" }
      [] tool = "validate_sql"    -> { "sql", "context", "bogus" }
      [] OTHER                    -> { "bogus" }

Has(request, k) == request[k] # Absent

\* dict.get(k, default); get(k) is Get(request, k, Null)
Get(request, k, default) == IF Has(request, k) THEN request[k] ELSE default

\* Python truth value of a token
Truthy(v) == v \notin { Null, "s:", "i:0", "b:false" }

\* the request payloads the protocol runtime may hand to a tool
Requests(tool) ==
    UNION { { [k \in Keys |-> IF k \in S THEN f[k] ELSE Absent] :
                f \in { g \in [S -> UNION { TokensOf(k) : k \in S }] :
                          \A k \in S : g[k] \in TokensOf(k) } } :
            S \in { T \in SUBSET KeysOf(tool) :
                      Cardinality(T \cap FilterKeys) <= MaxFilters } }

EmptyMap == [k \in Keys |-> Absent]

\* --------------------------------------------------- broker responses
BodyKeys == { "id", "message" }

BodyValueOf(k) == IF k = "message" THEN "bad topic" ELSE "m1"

\* a parsed JSON object body
Bodies == { [k \in BodyKeys |-> IF k \in S THEN BodyValueOf(k) ELSE Absent] :
            S \in SUBSET BodyKeys }

EmptyBody == [k \in BodyKeys |-> Absent]

Statuses == { 200, 201, 300, 400 }

Exceptions == { "ConnectError", "ReadTimeout" }

HttpResponse(status, json, body) ==
    [kind |-> "http", status |-> status, json |-> json, body |-> body, exc |-> ""]

Raised(exc) ==
    [kind |-> "exc", status |-> 0, json |-> FALSE, body |-> EmptyBody, exc |-> exc]

NoResponse ==
    [kind |-> "none", status |-> 0, json |-> FALSE, body |-> EmptyBody, exc |-> ""]

\* what the broker may answer: a status with a JSON object or with a body
\* that is not JSON
Responses ==
    { HttpResponse(st, TRUE, b) : st \in Statuses, b \in Bodies } \cup
    { HttpResponse(st, FALSE, EmptyBody) : st \in Statuses }

\* ------------------------------------------------------ returned values
\* {"result": payload}
Success(payload) == [shape |-> "result", text |-> "", payload |-> payload]

\* {"error": message}
Failure(message) == [shape |-> "error", text |-> message, payload |-> EmptyBody]

\* a bare string
Literal(text) == [shape |-> "literal", text |-> text, payload |-> EmptyBody]

\* the parsed body itself, not wrapped
Unwrapped(body) == [shape |-> "body", text |-> "", payload |-> body]

NoValue == [shape |-> "none", text |-> "", payload |-> EmptyBody]

IsSuccess(v) == v.shape = "result"
IsFailure(v) == v.shape = "error"

\* ------------------------------------------------------------ API client
\* str(e) of a transport exception
Describe(exc) ==
    IF exc = "ReadTimeout" THEN "The read operation timed out"
    ELSE "All connection attempts failed"

\* str(e) of the HTTPStatusError of httpx's raise_for_status
StatusErrorText(status) ==
    CASE status < 200 -> "Informational response '" \o ToString(status) \o "'"
      [] status < 400 -> "Redirect response '" \o ToString(status) \o "'"
      [] status < 500 -> "Client error '" \o ToString(status) \o "'"
      [] OTHER        -> "Server error '" \o ToString(status) \o "'"

is_success(status) == status >= 200 /\ status < 300

\* EMQXClient._handle_response
_handle_response(response) ==
    IF response.status >= 200 /\ response.status < 300
    THEN IF response.json
         THEN Unwrapped(response.body)
         ELSE Failure("Error processing response: Expecting value")
    ELSE Failure("EMQX API Error: " \o ToString(response.status))

\* what EMQXClient.publish_message returns for the outcome of its request
publish_message(response) ==
    IF response.kind = "exc"
    THEN Failure(Describe(response.exc))
    ELSE IF ~is_success(response.status)
         THEN Failure(StatusErrorText(response.status))
         ELSE _handle_response(response)

\* what get/post/put/delete return for the outcome of their request
normalize(response) ==
    IF response.kind = "exc"
    THEN Failure(Describe(response.exc))
    ELSE IF ~response.json
         THEN Failure(StatusErrorText(response.status))
         ELSE IF is_success(response.status)
              THEN Success(response.body)
              ELSE Failure(IF response.body["message"] # Absent
                           THEN response.body["message"]
                           ELSE "Unknown error")

\* one HTTP request as the client issues it
HttpRequest(method, endpoint, target, params, json) ==
    [method |-> method, endpoint |-> endpoint, target |-> target,
     params |-> params, json |-> json]

NoRequest == HttpRequest("", "", Absent, EmptyMap, EmptyMap)

\* one call of a client method by a handler: the method's name and its
\* arguments (a path, a client id, query parameters, a JSON body)
ClientCall(name, path, clientid, params, json) ==
    [name |-> name, path |-> path, clientid |-> clientid,
     params |-> params, json |-> json]

\* the request EMQXClient.publish_message posts
publish_request(call) ==
    HttpRequest("POST", "publish", Absent, EmptyMap,
                [k \in Keys |-> IF k \in { "topic", "payload", "qos", "retain" }
                                THEN call.json[k] ELSE Absent])

\* the request the other client methods issue
api_request(call) ==
    CASE call.name = "list_clients" ->
            HttpRequest("GET", "clients", Absent, call.params, EmptyMap)
      [] call.name = "get_client_info" ->
            HttpRequest("GET", "clients", call.clientid, EmptyMap, EmptyMap)
      [] call.name = "kick_client" ->
            HttpRequest("DELETE", "clients", call.clientid, EmptyMap, EmptyMap)
      [] call.name = "post" ->
            HttpRequest("POST", call.path, Absent, EmptyMap, call.json)
      [] OTHER ->
            HttpRequest("GET", call.path, Absent, call.params, EmptyMap)

RequestOf(call) ==
    IF call.name = "publish_message" THEN publish_request(call)
    ELSE api_request(call)

ClientResult(call, response) ==
    IF call.name = "publish_message" THEN publish_message(response)
    ELSE normalize(response)

\* --------------------------------------------------------- tool handlers
\* publish: the arguments topic, payload, qos, retain of publish_message
PublishArgs(topic, payload, qos, retain) ==
    [k \in Keys |->
        CASE k = "topic"   -> topic
          [] k = "payload" -> payload
          [] k = "qos"     -> qos
          [] k = "retain"  -> retain
          [] OTHER         -> Absent]

\* list_clients with the page size its docstring names as the default
ListParamsDocLimit(request) ==
    [k \in Keys |->
        CASE k = "page"      -> Get(request, "page", "i:1")
          [] k = "limit"     -> Get(request, "limit", "i:10")
          [] k \in FilterKeys -> IF Has(request, k) THEN Get(request, k, Null) ELSE Absent
          [] OTHER           -> Absent]

\* list_clients: page and limit with their defaults, then the optional
\* parameters that are in the request
ListParams(request) ==
    [k \in Keys |->
        CASE k = "page"      -> Get(request, "page", "i:" \o ToString(DefaultPage))
          [] k = "limit"     -> Get(request, "limit", "i:" \o ToString(DefaultLimit))
          [] k \in FilterKeys -> IF Has(request, k) THEN Get(request, k, Null) ELSE Absent
          [] OTHER           -> Absent]

\* validate_sql: the JSON body it posts
RuleTestData(request) ==
    [k \in Keys |->
        CASE k = "sql"     -> Get(request, "sql", Null)
          [] k = "context" -> Get(request, "context", Null)
          [] OTHER         -> Absent]

\* the validation with publish testing its payload the way it tests its
\* topic, by truth value
RejectionFalsyPayload(tool, request) ==
    CASE tool = "publish" ->
            IF ~Truthy(Get(request, "topic", Null))
            THEN Literal("\"error\": \"Missing required parameter: topic\"")
            ELSE IF ~Truthy(Get(request, "payload", Null))
                 THEN Literal("\"error\": \"Missing required parameter: payload\"")
                 ELSE NoValue
      [] tool \in { "get_client_info", "kick_client" } ->
            IF ~Truthy(Get(request, "clientid", Null))
            THEN Failure("Client ID is required")
            ELSE NoValue
      [] tool = "validate_sql" ->
            IF ~Has(request, "sql")
            THEN Failure("Missing required parameter: sql")
            ELSE IF ~Has(request, "context")
                 THEN Failure("Missing required parameter: context")
                 ELSE NoValue
      [] OTHER -> NoValue

\* what a handler returns before any client call, NoValue when the request
\* passes its validation
Rejection(tool, request) ==
    CASE tool = "publish" ->
            IF ~Truthy(Get(request, "topic", Null))
            THEN Literal("\"error\": \"Missing required parameter: topic\"")
            ELSE IF Get(request, "payload", Null) = Null
                 THEN Literal("\"error\": \"Missing required parameter: payload\"")
                 ELSE NoValue
      [] tool \in { "get_client_info", "kick_client" } ->
            IF ~Truthy(Get(request, "clientid", Null))
            THEN Failure("Client ID is required")
            ELSE NoValue
      [] tool = "validate_sql" ->
            IF ~Has(request, "sql")
            THEN Failure("Missing required parameter: sql")
            ELSE IF ~Has(request, "context")
                 THEN Failure("Missing required parameter: context")
                 ELSE NoValue
      [] OTHER -> NoValue

\* the client call a handler makes for a request that passes validation
CallOf(tool, request) ==
    CASE tool = "publish" ->
            ClientCall("publish_message", "", Absent, EmptyMap,
                       PublishArgs(Get(request, "topic", Null),
                                   Get(request, "payload", Null),
                                   Get(request, "qos", "i:0"),
                                   Get(request, "retain", "b:false")))
      [] tool = "list_clients" ->
            ClientCall("list_clients", "", Absent, ListParams(request), EmptyMap)
      [] tool = "get_client_info" ->
            ClientCall("get_client_info", "", Get(request, "clientid", Null),
                       EmptyMap, EmptyMap)
      [] tool = "kick_client" ->
            ClientCall("kick_client", "", Get(request, "clientid", Null),
                       EmptyMap, EmptyMap)
      [] tool = "validate_sql" ->
            ClientCall("post", "rule_test", Absent, EmptyMap, RuleTestData(request))
      [] OTHER ->
            ClientCall("get", "schema_registry", Absent, EmptyMap, EmptyMap)

\* ------------------------------------------------------------- the state
VARIABLES
    phase,          \* how far the server is: init, message_tools, constructed, running
    registry,       \* the tools bound on the FastMCP instance, in binding order
    client,         \* EMQXClient's api_url, api_key, api_secret
    pc,             \* where each invocation stands
    tool,           \* the tool each invocation runs
    request,        \* the request payload of each invocation
    transport,      \* the httpx.AsyncClient each invocation entered, 0 for none
    open,           \* the transports that are entered and not yet closed
    nextTransport,  \* the next transport to be constructed
    sent,           \* the HTTP requests each invocation has issued
    wire,           \* the last HTTP request each invocation issued
    endpoint,       \* the outcome of each invocation's own request
    elapsed,        \* the time each invocation has waited for its response
    inbox,          \* the outcome the network delivered on each transport
    ret,            \* what the client call of each invocation returns
    result          \* what each invocation returned to the protocol runtime

vars == << phase, registry, client, pc, tool, request, transport, open, nextTransport, sent,
           wire, endpoint, elapsed, inbox, ret, result >>

Transports == 1..NumCalls

Min(a, b) == IF a < b THEN a ELSE b

\* one @mcp.tool binding of a handler
Binding(handler, name, description) ==
    [handler |-> handler, name |-> name, description |-> description]

\* what EMQXMessageTools.register_tools binds
MessageToolBindings ==
    << Binding("publish", "publish_mqtt_message",
               "Publish an MQTT Message to Your EMQX Cluster on EMQX Cloud or Self-Managed Deployment") >>

\* what EMQXClientTools.register_tools binds
ClientToolBindings ==
    << Binding("list_clients", "list_mqtt_clients",
               "List MQTT clients connected to your EMQX Cluster"),
       Binding("get_client_info", "get_mqtt_client",
               "Get detailed information about a specific MQTT client by client ID"),
       Binding("kick_client", "kick_mqtt_client",
               "Disconnect a client from the MQTT broker by client ID") >>

\* EMQXClient.__init__ and the invocations before any tool is invoked
Idle ==
    /\ client = [api_url |-> "EMQX_API_URL", api_key |-> "EMQX_API_KEY",
                 api_secret |-> "EMQX_API_SECRET"]
    /\ pc = [i \in Calls |-> "idle"]
    /\ tool = [i \in Calls |-> ""]
    /\ request = [i \in Calls |-> EmptyMap]
    /\ transport = [i \in Calls |-> 0]
    /\ open = {}
    /\ nextTransport = 1
    /\ sent = [i \in Calls |-> 0]
    /\ wire = [i \in Calls |-> NoRequest]
    /\ endpoint = [i \in Calls |-> NoResponse]
    /\ elapsed = [i \in Calls |-> 0]
    /\ inbox = [t \in Transports |-> NoResponse]
    /\ ret = [i \in Calls |-> NoValue]
    /\ result = [i \in Calls |-> NoValue]

\* the state once EMQXMCPServer() is constructed and run() dispatches
Init ==
    /\ Idle
    /\ phase = "running"
    /\ registry = MessageToolBindings \o ClientToolBindings

\* the state when EMQXMCPServer.__init__ has made its FastMCP instance
RegInit ==
    /\ Idle
    /\ phase = "init"
    /\ registry = << >>

\* what every step of an invocation leaves alone
Invocations ==
    << client, pc, tool, request, transport, open, nextTransport, sent,
       wire, endpoint, elapsed, inbox, ret, result >>

\* _register_tools: EMQXMessageTools(logger).register_tools(mcp)
RegisterMessageTools ==
    /\ phase = "init"
    /\ registry' = registry \o MessageToolBindings
    /\ phase' = "message_tools"
    /\ UNCHANGED Invocations

\* _register_tools: EMQXClientTools(logger).register_tools(mcp); with it
\* __init__ ends
RegisterClientTools ==
    /\ phase = "message_tools"
    /\ registry' = registry \o ClientToolBindings
    /\ phase' = "constructed"
    /\ UNCHANGED Invocations

\* EMQXMCPServer.run: mcp.run() starts to dispatch requests
Run ==
    /\ phase = "constructed"
    /\ phase' = "running"
    /\ UNCHANGED << registry, Invocations >>

\* the bindings of a handler
BindingsOf(handler) ==
    { n \in 1..Len(registry) : registry[n].handler = handler }

\* the handler from its call by the protocol runtime to its first
\* suspension: it validates the request and either returns or goes on to
\* the client call
Invoke(i, t, r) ==
    /\ pc[i] = "idle"
    /\ tool' = [tool EXCEPT ![i] = t]
    /\ request' = [request EXCEPT ![i] = r]
    /\ IF Rejection(t, r) # NoValue
       THEN /\ result' = [result EXCEPT ![i] = Rejection(t, r)]
            /\ pc' = [pc EXCEPT ![i] = "returned"]
       ELSE /\ pc' = [pc EXCEPT ![i] = "enter"]
            /\ UNCHANGED result
    /\ UNCHANGED << phase, registry, client, transport, open, nextTransport, sent, wire,
                    endpoint, elapsed, inbox, ret >>

\* the transport an invocation enters: a newly constructed one
NewTransport(next, entered) == next

\* async with httpx.AsyncClient() as client: construct and enter
Enter(i) ==
    /\ pc[i] = "enter"
    /\ transport' = [transport EXCEPT ![i] = NewTransport(nextTransport, open)]
    /\ open' = open \cup { NewTransport(nextTransport, open) }
    /\ nextTransport' = nextTransport + 1
    /\ pc' = [pc EXCEPT ![i] = "send"]
    /\ UNCHANGED << phase, registry, client, tool, request, sent, wire, endpoint, elapsed, inbox,
                    ret, result >>

\* await client.post(...): the request goes out and the coroutine suspends
Send(i) ==
    /\ pc[i] = "send"
    /\ sent' = [sent EXCEPT ![i] = @ + 1]
    /\ wire' = [wire EXCEPT ![i] = RequestOf(CallOf(tool[i], request[i]))]
    /\ elapsed' = [elapsed EXCEPT ![i] = 0]
    /\ pc' = [pc EXCEPT ![i] = "await"]
    /\ UNCHANGED << phase, registry, client, tool, request, transport, open, nextTransport,
                    endpoint, inbox, ret, result >>

\* a client that sends its request again when it failed
AfterOutcomeRetry(outcome) ==
    IF outcome.kind = "exc" \/ ~is_success(outcome.status) THEN "send"
    ELSE "received"

\* where the client call goes once its request has an outcome
AfterOutcome(outcome) == "received"

\* the awaited request ends with an outcome and its timer is dropped
Deliver(i, outcome) ==
    /\ pc[i] = "await"
    /\ inbox' = [inbox EXCEPT ![transport[i]] = outcome]
    /\ endpoint' = [endpoint EXCEPT ![i] = outcome]
    /\ pc' = [pc EXCEPT ![i] = AfterOutcome(outcome)]
    /\ elapsed' = [elapsed EXCEPT ![i] = 0]
    /\ UNCHANGED << phase, registry, client, tool, request, transport, open, nextTransport,
                    sent, wire, ret, result >>

\* the broker answers
Respond(i, response) == Deliver(i, response)

\* the connection fails
ConnFail(i) == Deliver(i, Raised("ConnectError"))

\* a request issued without a timeout
TimedOutNever(waited) == FALSE

\* the request's timeout has run out
TimedOut(waited) == waited >= Timeout

\* time passes for a request in flight
Tick(i, d) ==
    /\ pc[i] = "await"
    /\ ~TimedOut(elapsed[i])
    /\ elapsed' = [elapsed EXCEPT ![i] = Min(@ + d, Timeout)]
    /\ UNCHANGED << phase, registry, client, pc, tool, request, transport, open, nextTransport,
                    sent, wire, endpoint, inbox, ret, result >>

\* httpx gives the request up
TimeoutFire(i) ==
    /\ TimedOut(elapsed[i])
    /\ Deliver(i, Raised("ReadTimeout"))

\* a client that keeps one response slot for all its calls: the resumed call
\* sees the outcome of the transport entered last
OutcomeShared(i, delivered, entered) ==
    delivered[CHOOSE t \in Transports :
                /\ \E j \in Calls : entered[j] = t
                /\ \A j \in Calls : entered[j] <= t]

\* the outcome the resumed client call sees: that of its own transport
Outcome(i, delivered, entered) == delivered[entered[i]]

\* the client call resumes and computes what it returns
Complete(i) ==
    /\ pc[i] = "received"
    /\ ret' = [ret EXCEPT ![i] = ClientResult(CallOf(tool[i], request[i]),
                                              Outcome(i, inbox, transport))]
    /\ pc' = [pc EXCEPT ![i] = "exit"]
    /\ UNCHANGED << phase, registry, client, tool, request, transport, open, nextTransport,
                    sent, wire, endpoint, elapsed, inbox, result >>

\* a block that never closes its transport
ClosedLeak(entered, t) == entered

\* the transports that stay entered when one is left
Closed(entered, t) == entered \ { t }

\* the async with block is left, the client call returns, and the handler
\* returns its result
Exit(i) ==
    /\ pc[i] = "exit"
    /\ open' = Closed(open, transport[i])
    /\ result' = [result EXCEPT ![i] = ret[i]]
    /\ pc' = [pc EXCEPT ![i] = "returned"]
    /\ UNCHANGED << phase, registry, client, tool, request, transport, nextTransport, sent,
                    wire, endpoint, elapsed, inbox, ret >>

\* ------------------------------------------------------- specifications
With(map, k, v) == [map EXCEPT ![k] = v]

ConcTools == { "publish", "get_client_info" }

ConcRequests(t) ==
    IF t = "publish"
    THEN { EmptyMap, With(With(EmptyMap, "topic", "s:t/1"), "payload", "s:hello") }
    ELSE { EmptyMap, With(EmptyMap, "clientid", "s:abc") }

ConcResponses ==
    { HttpResponse(201, TRUE, With(EmptyBody, "id", "m1")),
      HttpResponse(400, TRUE, With(EmptyBody, "message", "bad topic")),
      HttpResponse(400, FALSE, EmptyBody) }

\* several invocations in flight together
Next ==
    \E i \in Calls :
        \/ \E t \in ConcTools : \E r \in ConcRequests(t) : Invoke(i, t, r)
        \/ Enter(i)
        \/ Send(i)
        \/ \E response \in ConcResponses : Respond(i, response)
        \/ ConnFail(i)
        \/ Tick(i, Timeout)
        \/ TimeoutFire(i)
        \/ Complete(i)
        \/ Exit(i)

Spec == Init /\ [][Next]_vars

\* one invocation, every tool, every request and every broker answer
SeqNext ==
    \/ \E t \in Tools : \E r \in Requests(t) : Invoke(1, t, r)
    \/ Enter(1)
    \/ Send(1)
    \/ \E response \in Responses : Respond(1, response)
    \/ ConnFail(1)
    \/ Tick(1, 1)
    \/ TimeoutFire(1)
    \/ Complete(1)
    \/ Exit(1)

SpecSeq == Init /\ [][SeqNext]_vars

\* the protocol runtime calls the handler bound to a tool
Dispatch(i, t, r) ==
    /\ phase = "running"
    /\ BindingsOf(t) # {}
    /\ Invoke(i, t, r)

\* the server from its construction on: registration, run, and one
\* dispatched invocation
RegNext ==
    \/ RegisterMessageTools
    \/ RegisterClientTools
    \/ Run
    \/ \E t \in Tools : \E r \in Requests(t) : Dispatch(1, t, r)
    \/ Enter(1)
    \/ Send(1)
    \/ \E response \in Responses : Respond(1, response)
    \/ ConnFail(1)
    \/ Tick(1, 1)
    \/ TimeoutFire(1)
    \/ Complete(1)
    \/ Exit(1)

SpecReg == RegInit /\ [][RegNext]_vars

\* the event loop resumes a coroutine that can run, time passes, and httpx
\* enforces its timeout; the broker owes no answer
SeqFairness ==
    /\ WF_vars(Enter(1))
    /\ WF_vars(Send(1))
    /\ WF_vars(Tick(1, 1))
    /\ WF_vars(TimeoutFire(1))
    /\ WF_vars(Complete(1))
    /\ WF_vars(Exit(1))

SpecLive == Init /\ [][SeqNext]_vars /\ SeqFairness

\* ---------------------------------------------------------------- claims
Returned(i) == pc[i] = "returned"

\* the invocation got past its handler's validation
Validated(i) == pc[i] # "idle" /\ Rejection(tool[i], request[i]) = NoValue

\* the client call of the invocation has computed what it returns
Called(i) == Validated(i) /\ pc[i] \in { "exit", "returned" }

\* a required field of the tool is not in the request
MissingRequired(t, r) ==
    CASE t = "publish" -> ~Has(r, "topic") \/ ~Has(r, "payload")
      [] t \in { "get_client_info", "kick_client" } -> ~Has(r, "clientid")
      [] t = "validate_sql" -> ~Has(r, "sql") \/ ~Has(r, "context")
      [] OTHER -> FALSE

\* C1: a tool call that misses a required field returns a Failure and
\* issues no network call.
C1_MissingFieldFails ==
    \A i \in Calls :
        (pc[i] # "idle" /\ MissingRequired(tool[i], request[i]))
            => /\ Returned(i)
               /\ IsFailure(result[i])
               /\ sent[i] = 0 /\ transport[i] = 0

\* the part of C1 that the handlers keep: no network call, and the handler
\* has returned something that is not a Success
C1_MissingFieldNoCall ==
    \A i \in Calls :
        (pc[i] # "idle" /\ MissingRequired(tool[i], request[i]))
            => /\ Returned(i)
               /\ result[i].shape \in { "error", "literal" }
               /\ sent[i] = 0 /\ transport[i] = 0

\* the invocation met one of the four kinds of error
ErrorBehaviour(i) ==
    \/ pc[i] # "idle" /\ Rejection(tool[i], request[i]) # NoValue
    \/ endpoint[i].kind = "exc"
    \/ endpoint[i].kind = "http" /\ ~is_success(endpoint[i].status)

\* C2: an invocation that meets a validation error, a transport error or
\* a non-2xx answer, with a JSON body or not, ends by returning a Failure.
C2_ErrorsEndInFailure ==
    \A i \in Calls :
        (Returned(i) /\ ErrorBehaviour(i)) => IsFailure(result[i])

\* the part of C2 that holds: an error met inside the client call ends in
\* a Failure
C2_ClientErrorsEndInFailure ==
    \A i \in Calls :
        (Called(i) /\ ErrorBehaviour(i)) => IsFailure(ret[i])

\* C3: what an invocation returns is a Success {result: ...} or a Failure
\* {error: message}, never a bare string and never an unwrapped body.
C3_ResultEnvelope ==
    \A i \in Calls :
        Returned(i) => (IsSuccess(result[i]) \/ IsFailure(result[i]))

\* the default message of a Failure
UnknownError == "Unknown error"

\* C4: for an answer with a status outside [200,300) and a JSON body the
\* client call returns Failure(message), message being the body's message
\* field, or "Unknown error" when the body has none.
C4_FailureMessage ==
    \A i \in Calls :
        (/\ Called(i)
         /\ endpoint[i].kind = "http" /\ endpoint[i].json
         /\ ~(endpoint[i].status >= 200 /\ endpoint[i].status < 300))
            => ret[i] = Failure(IF endpoint[i].body["message"] # Absent
                                THEN endpoint[i].body["message"]
                                ELSE UnknownError)

\* C5: for an answer with a status in [200,300) and a JSON body the client
\* call returns Success(body), the body as the broker sent it.
C5_SuccessPassThrough ==
    \A i \in Calls :
        (/\ Called(i)
         /\ endpoint[i].kind = "http" /\ endpoint[i].json
         /\ endpoint[i].status >= 200 /\ endpoint[i].status < 300)
            => ret[i] = Success(endpoint[i].body)

\* the part of C5 that publish_message keeps: the body is passed through
\* unchanged, wrapped or not
C5_BodyUnchanged ==
    \A i \in Calls :
        (/\ Called(i)
         /\ endpoint[i].kind = "http" /\ endpoint[i].json
         /\ endpoint[i].status >= 200 /\ endpoint[i].status < 300)
            => /\ ret[i].shape \in { "result", "body" }
               /\ ret[i].payload = endpoint[i].body

\* what an invocation returns when no other invocation exists: a function
\* of its own request and of the outcome of its own request
Alone(t, r, outcome) ==
    IF Rejection(t, r) # NoValue THEN Rejection(t, r)
    ELSE ClientResult(CallOf(t, r), outcome)

Credentials ==
    [api_url |-> "EMQX_API_URL", api_key |-> "EMQX_API_KEY",
     api_secret |-> "EMQX_API_SECRET"]

C7_TransportScoped ==
    /\ \A i \in Calls :
        /\ pc[i] \in { "send", "await", "received", "exit" } <=> transport[i] \in open
        /\ Returned(i) => transport[i] \notin open
        /\ Validated(i) /\ Returned(i) => transport[i] # 0
    /\ \A i, j \in Calls :
        (i # j /\ transport[i] # 0) => transport[i] # transport[j]

\* an invocation has returned after a timeout, its transport closed, while
\* the other holds a transport of its own
C7_Witness ==
    /\ Returned(1) /\ endpoint[1] = Raised("ReadTimeout")
    /\ transport[1] # 0 /\ transport[1] \notin open
    /\ pc[2] = "await" /\ transport[2] \in open

AllowList ==
    { "node", "clientid", "username", "ip_address", "conn_state", "clean_start",
      "proto_ver", "like_clientid", "like_username", "like_ip_address" }

PublishBody(r) ==
    [k \in Keys |->
        CASE k \in { "topic", "payload" } -> r[k]
          [] k = "qos"    -> (IF Has(r, "qos") THEN r["qos"] ELSE "i:0")
          [] k = "retain" -> (IF Has(r, "retain") THEN r["retain"] ELSE "b:false")
          [] OTHER        -> Absent]

\* the publish request is forwarded: the invocation is not turned away, its
\* one request is the POST of PublishBody to the publish endpoint, and it
\* returns what the client call returned
Forwarded(i) ==
    /\ sent[i] > 0 =>
            wire[i] = HttpRequest("POST", "publish", Absent, EmptyMap,
                                  PublishBody(request[i]))
    /\ Returned(i) => (sent[i] = 1 /\ result[i] = ret[i]
                        /\ ret[i] = ClientResult(CallOf("publish", request[i]),
                                                 endpoint[i]))

NonEmptyTopic(r) == Has(r, "topic") /\ r["topic"] \notin { Null, "s:" }

\* C11 as stated: a publish request with a present, non-empty topic and a
\* present payload is forwarded as {topic, payload, qos, retain}.
C11_PublishForwardsPresent ==
    \A i \in Calls :
        (/\ tool[i] = "publish"
         /\ NonEmptyTopic(request[i])
         /\ Has(request[i], "payload"))
            => Forwarded(i)

\* C11: a publish request with a present, non-empty topic and a present
\* payload that is not null (the empty string included) is forwarded as
\* the POST body {topic, payload, qos, retain} to the publish endpoint, qos
\* 0 and retain false by default, qos as given, and the handler returns
\* the client call's result unchanged.
C11_PublishForwards ==
    \A i \in Calls :
        (/\ tool[i] = "publish"
         /\ NonEmptyTopic(request[i])
         /\ Has(request[i], "payload") /\ request[i]["payload"] # Null)
            => Forwarded(i)

\* publish has returned for an empty-string payload, an out-of-range qos
\* and no retain
C11_Witness ==
    /\ tool[1] = "publish" /\ Returned(1) /\ sent[1] = 1
    /\ request[1]["topic"] = "s:t/1" /\ request[1]["payload"] = "s:"
    /\ request[1]["qos"] = "i:7" /\ ~Has(request[1], "retain")
    /\ wire[1].json["payload"] = "s:" /\ wire[1].json["qos"] = "i:7"
    /\ wire[1].json["retain"] = "b:false"
    /\ result[1] = ret[1] /\ endpoint[1].status = 201

\* the tool is bound once, to a name and a description
BoundOnce(t) ==
    /\ Cardinality(BindingsOf(t)) = 1
    /\ \A n \in BindingsOf(t) : registry[n].name # "" /\ registry[n].description # ""

\* C12: once the server is constructed, publish, list_clients,
\* get_client_info, kick_client, validate_sql and list_available_schemas
\* are each bound once to a name and a description, and they are so before
\* run() dispatches.
C12_FullToolSetRegistered ==
    phase \in { "constructed", "running" } =>
        \A t \in { "publish", "list_clients", "get_client_info", "kick_client",
                    "validate_sql", "list_available_schemas" } : BoundOnce(t)

\* the part of C12 that the server keeps: the message and client tools are
\* each bound once before run(), the rule tools never, and no invocation
\* starts before run()
C12_MessageAndClientToolsRegistered ==
    /\ phase \in { "constructed", "running" } =>
            /\ \A t \in { "publish", "list_clients", "get_client_info",
                           "kick_client" } : BoundOnce(t)
            /\ \A t \in { "validate_sql", "list_available_schemas" } :
                    BindingsOf(t) = {}
    /\ phase # "running" => \A i \in Calls : pc[i] = "idle"

TypeOK ==
    /\ pc \in [Calls -> { "idle", "enter", "send", "await", "received", "exit", "returned" }]
    /\ open \subseteq Transports
    /\ \A i \in Calls : elapsed[i] \in 0..Timeout
====
